---- MODULE Spec2Model ----
(***************************************************************************)
(* POST /api/roast (src/src/app/api/roast/route.ts): one session of the    *)
(* streaming relay.  The handler reads the request, creates a              *)
(* TransformStream, starts a background task that performs the GitHub      *)
(* calls and relays the generated text as server-sent events, and hands    *)
(* the readable side to the response.  The file holds two revisions of     *)
(* the handler (lines 93-502 and 530-708); `version` selects one.          *)
(***************************************************************************)
EXTENDS Integers, Sequences, FiniteSets, TLC

\* ------------------------------------------------------------ bounds
MaxRepos == 2
MaxCommits == 1
MaxFragments == 2
MaxRequests == 2
MaxEvents == 3
MaxSent == 2
MaxSessions == 2

\* ------------------------------------------------------------ inputs
Usernames == {"", "octocat", "https://github.com/octocat/"}
Modes == {"roast", "feedback"}
Fragments == {"a", "b"}

\* A thrown value: `undefined`, or an object whose status / message
\* properties may be absent.  A message is a sequence of words.
NoError == [kind |-> "none", hasStatus |-> FALSE, status |-> 0,
            hasMessage |-> FALSE, message |-> <<>>]
Undefined == [kind |-> "undefined", hasStatus |-> FALSE, status |-> 0,
              hasMessage |-> FALSE, message |-> <<>>]
Err(hs, s, hm, m) == [kind |-> "object", hasStatus |-> hs, status |-> s,
                      hasMessage |-> hm, message |-> m]

\* What an upstream call can fail with.
UpstreamErrors ==
    { Err(TRUE, 404, TRUE, <<"Not", "Found">>),
      Err(TRUE, 403, TRUE, <<"API", "rate", "limit", "exceeded">>),
      Err(TRUE, 404, TRUE, <<"rate", "limit", "hit">>),
      Err(FALSE, 0, TRUE, <<"secondary", "rate", "limit">>),
      Err(TRUE, 500, TRUE, <<"boom">>),
      Err(FALSE, 0, TRUE, <<>>),
      Err(FALSE, 0, FALSE, <<>>) }

\* What iterating result.textStream can fail with: the SDK's errors carry a
\* message and no status property.
StreamErrors == { e \in UpstreamErrors : ~e.hasStatus }

\* What the framework cancels the response body with when the client
\* disconnects: no reason at all, or an abort error object.
CancelReasons == { Undefined, Err(FALSE, 0, TRUE, <<>>) }

\* writer.write / writer.close on a closed writable reject with a TypeError.
ClosedTypeError == Err(FALSE, 0, TRUE, <<"Invalid", "state">>)

\* route.ts:223-239
codeFiles ==
    << "src/index.js", "index.js", "app.js", "main.js", "src/index.ts",
       "index.ts", "app.ts", "main.ts", "src/App.tsx", "src/App.jsx",
       "App.tsx", "App.jsx", "main.py", "app.py", "__init__.py" >>

\* What GitHub holds for one listed repository, as the sub-fetches see it:
\* commits: the commits listCommits returns, -1 when the call fails;
\* blank: how many of them have an empty first message line;
\* detail: whether getCommit succeeds; pkg, readme: whether the file is read;
\* code: index in codeFiles of the first path that is a file, 0 when none.
Remote(c, b, d, p, r, k) ==
    [commits |-> c, blank |-> b, detail |-> d, pkg |-> p, readme |-> r, code |-> k]
NoRemote == Remote(0, 0, FALSE, FALSE, FALSE, 0)
RepoKinds ==
    { Remote(MaxCommits, 0, TRUE, TRUE, TRUE, 1),
      Remote(-1, 0, FALSE, FALSE, FALSE, 0),
      Remote(MaxCommits, 1, FALSE, TRUE, FALSE, Len(codeFiles)),
      Remote(0, 0, TRUE, FALSE, TRUE, 13) }

VARIABLES
    version,      \* 1: route.ts 93-502, 2: route.ts 530-708
    username,     \* body.username, as received
    mode,         \* body.mode
    bodyOk,       \* whether req.json() resolves
    ret,          \* HTTP status returned by the handler, 0 while none
    pc,           \* position of the handler / background task
    cont,         \* position after the write being awaited
    awaiting,     \* "none" | "write": the task is suspended in writer.write
    pending,      \* the event of the write being awaited
    inCatch,      \* the task is inside its catch block
    sink,         \* "none" | "open" | "closed" | "errored"
    storedError,  \* the writable's stored error once errored
    canceled,     \* the client has disconnected
    events,       \* events written to the sink, in order
    attempts,     \* every sendEvent call: the event and the sink state it met
    closeCalls,   \* each writer.close() call: the sink state met, whether it rejected
    calls,        \* upstream calls issued, in order
    error,        \* the value caught by the task's catch block
    errorMsg,     \* errorMsg of the catch block
    errClass,     \* branch of the classification taken
    escaped,      \* a rejection left the background task unhandled
    upFailedAt,   \* the top-level upstream call that failed, "" if none
    nRepos,       \* repos.length, -1 before the listing returned
    ri,           \* index of the repository being analysed
    nCommits,     \* commits.length of the current repository
    ci,           \* index of the commit being detailed
    recentCommits,\* recentCommits of the current repository, one entry each
    packageJson,  \* package.json was read for the current repository
    readmeSnippet,\* README.md was read for the current repository
    codeAnalysis, \* code file analysed for the current repository, "" if none
    fi,           \* index into codeFiles
    summaries,    \* summaries pushed so far
    remote,       \* what GitHub holds for the repository being analysed
    produced,     \* fragments the token stream has yielded so far
    page,         \* page.tsx: the component's state and controllerRef
    requests,     \* page.tsx: the handleSubmit invocations, in order
    received,     \* page.tsx: the events dispatched since the last submit
    wire,         \* bytes sendEvent has written that no read has returned yet
    sent,         \* the events sendEvent has encoded, in order
    carry,        \* page.tsx: bytes the TextDecoder holds back
    buffer,       \* page.tsx: the text after the last line feed
    dispatched,   \* page.tsx: the events the read loop has dispatched
    sessions,     \* the POST invocations in progress on one server
    sinks,        \* the TransformStream each of them created
    actor         \* the invocation that took the last step

relayVars == << version, username, mode, bodyOk, ret, pc, cont, awaiting, pending,
           inCatch, sink, storedError, canceled, events, attempts, closeCalls,
           calls, error, errorMsg, errClass, escaped, upFailedAt, nRepos, ri,
           nCommits, ci, recentCommits, packageJson, readmeSnippet,
           codeAnalysis, fi, summaries, remote, produced >>

\* The page (src/app/page.tsx).
pageVars == << page, requests, received >>

\* The event stream between sendEvent and the page's reader.
codecVars == << wire, sent, carry, buffer, dispatched >>

\* Several invocations of POST on one server.
sessVars == << sessions, sinks, actor >>

vars == << relayVars, pageVars, codecVars, sessVars >>

\* Groups of variables an action leaves alone.  No step of the handler
\* writes the request it was given, nor anything outside the handler.
reqVars == << version, username, mode, bodyOk, pageVars, codecVars, sessVars >>
repoVars == << nRepos, ri, nCommits, ci, recentCommits, packageJson,
               readmeSnippet, codeAnalysis, fi, summaries, remote >>
catchVars == << error, errorMsg, errClass >>

NoEvent == [type |-> "none", content |-> <<>>]
Event(t, c) == [type |-> t, content |-> c]
Call(op, repo, path, ref) ==
    [op |-> op, user |-> username, repo |-> repo, path |-> path, ref |-> ref]

\* page.tsx:41-48  the useState / useRef initial values; controllerRef holds
\* 0 for null, else the number of the request whose AbortController it is.
PageInit ==
    [username |-> "", result |-> <<>>, loading |-> FALSE, status |-> "",
     copied |-> FALSE, controllerRef |-> 0]

Init ==
    /\ version \in {1, 2}
    /\ username \in Usernames
    /\ mode \in Modes
    /\ bodyOk \in BOOLEAN
    /\ ret = 0
    /\ pc = "entry"
    /\ cont = ""
    /\ awaiting = "none"
    /\ pending = NoEvent
    /\ inCatch = FALSE
    /\ sink = "none"
    /\ storedError = NoError
    /\ canceled = FALSE
    /\ events = <<>>
    /\ attempts = <<>>
    /\ closeCalls = <<>>
    /\ calls = <<>>
    /\ error = NoError
    /\ errorMsg = <<>>
    /\ errClass = ""
    /\ escaped = FALSE
    /\ upFailedAt = ""
    /\ nRepos = -1
    /\ ri = 0
    /\ nCommits = 0
    /\ ci = 0
    /\ recentCommits = <<>>
    /\ packageJson = FALSE
    /\ readmeSnippet = FALSE
    /\ codeAnalysis = ""
    /\ fi = 0
    /\ summaries = <<>>
    /\ remote = NoRemote
    /\ produced = <<>>
    /\ page = PageInit
    /\ requests = <<>>
    /\ received = <<>>
    /\ wire = <<>>
    /\ sent = <<>>
    /\ carry = <<>>
    /\ buffer = <<>>
    /\ dispatched = <<>>
    /\ sessions = <<>>
    /\ sinks = <<>>
    /\ actor = 0


\* ------------------------------------------------------------ helpers

\* String.prototype.includes on a message, word by word.
Includes(msg, pat) ==
    \E i \in 1..(Len(msg) - Len(pat) + 1) : SubSeq(msg, i, i + Len(pat) - 1) = pat

\* A throw at the task's current position: into the catch block from the try
\* block, out of the task (an unhandled rejection) from the catch block.
Throw(e) ==
    /\ awaiting' = "none"
    /\ pending' = NoEvent
    /\ cont' = ""
    /\ IF inCatch
       THEN /\ escaped' = TRUE
            /\ pc' = "done"
            /\ error' = error
       ELSE /\ escaped' = escaped
            /\ pc' = "catch"
            /\ error' = e

\* What writer.write rejects with on a writable that is not writable.
WriteRejection == IF sink = "errored" THEN storedError ELSE ClosedTypeError

\* await sendEvent(type, data): writer.write is called; on a writable stream
\* the task is suspended until the chunk is taken, otherwise the call rejects.
SendEvent(ev, next) ==
    /\ awaiting = "none"
    /\ attempts' = Append(attempts, [event |-> ev, sink |-> sink])
    /\ IF sink = "open"
       THEN /\ awaiting' = "write"
            /\ pending' = ev
            /\ cont' = next
            /\ UNCHANGED << pc, error, escaped >>
       ELSE Throw(WriteRejection)

\* await writer.close(): closes a writable stream, rejects on any other.
WriterClose(next) ==
    /\ awaiting = "none"
    /\ closeCalls' = Append(closeCalls, [sink |-> sink, raised |-> sink # "open"])
    /\ IF sink = "open"
       THEN /\ sink' = "closed"
            /\ pc' = next
            /\ UNCHANGED << awaiting, pending, cont, error, escaped >>
       ELSE /\ sink' = sink
            /\ Throw(ClosedTypeError)

\* ------------------------------------------------------------ handler

\* Variant of ParseRequest: the if (!username) check is missing.
ParseRequestNoUsernameCheck ==
    /\ pc = "entry"
    /\ IF ~bodyOk
       THEN /\ ret' = 500
            /\ pc' = "done"
            /\ sink' = sink
       ELSE /\ ret' = ret
            /\ sink' = "open"
            /\ pc' = IF version = 1 THEN "status_profile" ELSE "status_repos"
    /\ UNCHANGED << reqVars, repoVars, catchVars, cont, awaiting, pending,
                    inCatch, storedError, canceled, events, attempts,
                    closeCalls, calls, escaped, upFailedAt, produced >>

\* req.json(), the username check, and the creation of the stream.
ParseRequest ==
    /\ pc = "entry"
    /\ IF ~bodyOk
       THEN /\ ret' = 500
            /\ pc' = "done"
            /\ sink' = sink
       ELSE IF username = ""
       THEN /\ ret' = 400
            /\ pc' = "done"
            /\ sink' = sink
       ELSE /\ ret' = ret
            /\ sink' = "open"
            /\ pc' = IF version = 1 THEN "status_profile" ELSE "status_repos"
    /\ UNCHANGED << reqVars, repoVars, catchVars, cont, awaiting, pending,
                    inCatch, storedError, canceled, events, attempts,
                    closeCalls, calls, escaped, upFailedAt, produced >>

\* return new Response(stream.readable, ...): reached once the task has
\* suspended at its first await.  A body whose client is already gone is
\* canceled by the framework as soon as it is handed over.
ReturnResponse ==
    /\ ret = 0
    /\ awaiting = "write"
    /\ ret' = 200
    /\ \E r \in CancelReasons :
         IF canceled
         THEN sink' = "errored" /\ storedError' = r
         ELSE UNCHANGED << sink, storedError >>
    /\ UNCHANGED << reqVars, repoVars, catchVars, pc, cont, awaiting, pending,
                    inCatch, canceled, events, attempts, closeCalls, calls,
                    escaped, upFailedAt, produced >>

\* The client disconnects: the framework cancels stream.readable, which
\* errors the writable side with the cancel reason.  Canceling a closed
\* stream changes nothing.
Cancel ==
    /\ ~canceled
    /\ ret \in {0, 200}
    /\ canceled' = TRUE
    /\ \E r \in CancelReasons :
         IF sink = "open" /\ ret = 200
         THEN sink' = "errored" /\ storedError' = r
         ELSE UNCHANGED << sink, storedError >>
    /\ UNCHANGED << reqVars, repoVars, catchVars, ret, pc, cont, awaiting,
                    pending, inCatch, events, attempts, closeCalls, calls,
                    escaped, upFailedAt, produced >>

\* Variant of WriteResolved: a write resolves whatever the state of the stream.
WriteResolvedAnyState ==
    /\ awaiting = "write"
    /\ ret = 200
    /\ events' = Append(events, pending)
    /\ pc' = cont
    /\ awaiting' = "none"
    /\ pending' = NoEvent
    /\ cont' = ""
    /\ UNCHANGED << reqVars, repoVars, catchVars, ret, inCatch, sink,
                    storedError, canceled, attempts, closeCalls, calls,
                    escaped, upFailedAt, produced >>

\* The client reads: the pending chunk passes through the TransformStream
\* and writer.write resolves.
WriteResolved ==
    /\ awaiting = "write"
    /\ sink = "open"
    /\ ret = 200
    /\ events' = Append(events, pending)
    /\ pc' = cont
    /\ awaiting' = "none"
    /\ pending' = NoEvent
    /\ cont' = ""
    /\ UNCHANGED << reqVars, repoVars, catchVars, ret, inCatch, sink,
                    storedError, canceled, attempts, closeCalls, calls,
                    escaped, upFailedAt, produced >>

\* The writable was errored while the write was pending: writer.write rejects.
WriteRejected ==
    /\ awaiting = "write"
    /\ sink = "errored"
    /\ Throw(storedError)
    /\ UNCHANGED << reqVars, repoVars, ret, inCatch, sink, storedError,
                    canceled, events, attempts, closeCalls, calls, errorMsg,
                    errClass, upFailedAt, produced >>

\* Frame of a sendEvent step.
SendFrame ==
    UNCHANGED << reqVars, repoVars, ret, inCatch, sink, storedError, canceled,
                 events, closeCalls, calls, errorMsg, errClass, upFailedAt,
                 produced >>

\* Frame of a writer.close() step.
CloseFrame ==
    UNCHANGED << reqVars, repoVars, ret, inCatch, storedError, canceled,
                 events, attempts, calls, errorMsg, errClass, upFailedAt,
                 produced >>

\* A top-level upstream call that fails with e.
UpstreamFails(op, e) ==
    /\ upFailedAt' = op
    /\ Throw(e)

\* A step of the try block that neither writes nor throws.
Goto(next) ==
    /\ awaiting = "none"
    /\ pc' = next
    /\ UNCHANGED << cont, awaiting, pending, error, escaped >>


\* ------------------------------------------------------------ the task: profile and listing

\* route.ts:111
SendStatusProfile ==
    /\ pc = "status_profile"
    /\ SendEvent(Event("status", <<"Fetching GitHub profile...">>), "get_user")
    /\ SendFrame

\* Variant of GetByUsername: a failed lookup is tried once more.
GetByUsernameRetries ==
    /\ pc = "get_user"
    /\ calls' = Append(calls, Call("users.getByUsername", 0, "", 0))
    /\ \/ Goto("status_repos") /\ UNCHANGED upFailedAt
       \/ /\ calls = <<>>
          /\ Goto("get_user")
          /\ UNCHANGED upFailedAt
       \/ \E e \in UpstreamErrors : UpstreamFails("users.getByUsername", e)
    /\ UNCHANGED << reqVars, repoVars, ret, inCatch, sink, storedError,
                    canceled, events, attempts, closeCalls, errorMsg, errClass,
                    produced >>

\* Variant of GetByUsername: a failed lookup sets the HTTP status, as a
\* handler that answers with a JSON error would.
GetByUsernameSetsStatus ==
    /\ pc = "get_user"
    /\ calls' = Append(calls, Call("users.getByUsername", 0, "", 0))
    /\ \/ Goto("status_repos") /\ UNCHANGED << upFailedAt, ret >>
       \/ \E e \in UpstreamErrors :
            /\ UpstreamFails("users.getByUsername", e)
            /\ ret' = IF e.hasStatus THEN e.status ELSE 500
    /\ UNCHANGED << reqVars, repoVars, inCatch, sink, storedError,
                    canceled, events, attempts, closeCalls, errorMsg, errClass,
                    produced >>

\* route.ts:114  octokit.users.getByUsername({ username })
GetByUsername ==
    /\ pc = "get_user"
    /\ calls' = Append(calls, Call("users.getByUsername", 0, "", 0))
    /\ \/ Goto("status_repos") /\ UNCHANGED upFailedAt
       \/ \E e \in UpstreamErrors : UpstreamFails("users.getByUsername", e)
    /\ UNCHANGED << reqVars, repoVars, ret, inCatch, sink, storedError,
                    canceled, events, attempts, closeCalls, errorMsg, errClass,
                    produced >>

\* route.ts:127, 548
SendStatusRepos ==
    /\ pc = "status_repos"
    /\ SendEvent(Event("status",
                       IF version = 1
                       THEN <<"Fetching repositories...">>
                       ELSE <<"Fetching GitHub repositories...">>),
                 "list_repos")
    /\ SendFrame

\* Variant of ListForUser: the repos.length === 0 check is missing.
ListForUserNoEmptyCheck ==
    /\ pc = "list_repos"
    /\ calls' = Append(calls, Call("repos.listForUser", 0, "", 0))
    /\ \/ \E n \in 0..MaxRepos :
            /\ nRepos' = n
            /\ Goto("status_analyze")
            /\ UNCHANGED upFailedAt
       \/ \E e \in UpstreamErrors :
            /\ UpstreamFails("repos.listForUser", e)
            /\ nRepos' = nRepos
    /\ UNCHANGED << reqVars, ri, nCommits, ci, recentCommits, packageJson,
                    readmeSnippet, codeAnalysis, fi, summaries, remote, ret,
                    inCatch, sink, storedError, canceled, events, attempts,
                    closeCalls, errorMsg, errClass, produced >>

\* route.ts:129-141, 553-565  octokit.repos.listForUser and the length check
ListForUser ==
    /\ pc = "list_repos"
    /\ calls' = Append(calls, Call("repos.listForUser", 0, "", 0))
    /\ \/ \E n \in 0..MaxRepos :
            /\ nRepos' = n
            /\ Goto(IF n = 0 THEN "error_norepos" ELSE "status_analyze")
            /\ UNCHANGED upFailedAt
       \/ \E e \in UpstreamErrors :
            /\ UpstreamFails("repos.listForUser", e)
            /\ nRepos' = nRepos
    /\ UNCHANGED << reqVars, ri, nCommits, ci, recentCommits, packageJson,
                    readmeSnippet, codeAnalysis, fi, summaries, remote, ret, inCatch,
                    sink, storedError, canceled, events, attempts, closeCalls,
                    errorMsg, errClass, produced >>

\* Variant of SendNoReposError: after the event the task neither closes the
\* sink nor returns, and falls through to the analysis.
SendNoReposErrorFallsThrough ==
    /\ pc = "error_norepos"
    /\ SendEvent(Event("error", <<"No public repos found for @", username,
                                  ". Are you a ghost coder?">>),
                 "status_analyze")
    /\ SendFrame

\* route.ts:136-138, 560-562
SendNoReposError ==
    /\ pc = "error_norepos"
    /\ SendEvent(Event("error", <<"No public repos found for @", username,
                                  ". Are you a ghost coder?">>),
                 "close_norepos")
    /\ SendFrame

\* Variant of CloseNoRepos: the task returns without closing the sink.
CloseNoReposOmitted ==
    /\ pc = "close_norepos"
    /\ Goto("done")
    /\ UNCHANGED << closeCalls, sink >>
    /\ CloseFrame

\* route.ts:139-140, 563-564
CloseNoRepos ==
    /\ pc = "close_norepos"
    /\ WriterClose("done")
    /\ CloseFrame

\* Variant of SendStatusAnalyze: the analysis starts without its status event.
SendStatusAnalyzeOmitted ==
    /\ pc = "status_analyze"
    /\ Goto("loop")
    /\ UNCHANGED attempts
    /\ SendFrame

\* route.ts:143-145, 567
SendStatusAnalyze ==
    /\ pc = "status_analyze"
    /\ SendEvent(Event("status", <<"Analyzing repositories...">>), "loop")
    /\ SendFrame

\* ------------------------------------------------------------ the task: per-repository analysis

\* Frame of a step of the analysis loop, which touches neither sink nor events.
LoopFrame ==
    UNCHANGED << reqVars, catchVars, ret, cont, awaiting, pending, inCatch,
                 sink, storedError, canceled, events, attempts, closeCalls,
                 escaped, upFailedAt, produced, nRepos >>

\* route.ts:150-151, 572-573  for (const repo of repos); what GitHub holds
\* for the repository is drawn here and answers the sub-fetches below.
ForRepo ==
    /\ pc = "loop"
    /\ awaiting = "none"
    /\ IF ri < nRepos
       THEN /\ ri' = ri + 1
            /\ pc' = "list_commits"
            /\ remote' \in RepoKinds
       ELSE /\ ri' = ri
            /\ pc' = "status_gen"
            /\ remote' = NoRemote
    /\ nCommits' = 0
    /\ ci' = 0
    /\ recentCommits' = <<>>
    /\ packageJson' = FALSE
    /\ readmeSnippet' = FALSE
    /\ codeAnalysis' = ""
    /\ fi' = 0
    /\ UNCHANGED << calls, summaries >>
    /\ LoopFrame

\* Variant of ListCommits: the call is not wrapped in try/catch, so its
\* failure reaches the task's catch block.
ListCommitsFailureThrows ==
    /\ pc = "list_commits"
    /\ calls' = Append(calls, Call("repos.listCommits", ri, "", 0))
    /\ IF remote.commits >= 0
       THEN /\ nCommits' = remote.commits
            /\ IF version = 1
               THEN /\ recentCommits' = recentCommits
                    /\ pc' = IF remote.commits > 0 THEN "get_commit" ELSE "get_pkg"
               ELSE /\ recentCommits' =
                         [i \in 1..(remote.commits - remote.blank) |-> "message"]
                    /\ pc' = "get_pkg"
            /\ UNCHANGED << cont, awaiting, pending, error, escaped >>
       ELSE /\ Throw(Err(TRUE, 404, TRUE, <<"Not", "Found">>))
            /\ UNCHANGED << nCommits, recentCommits >>
    /\ UNCHANGED << ri, ci, packageJson, readmeSnippet, codeAnalysis, fi,
                    summaries, remote, reqVars, errorMsg, errClass, ret,
                    inCatch, sink, storedError, canceled, events, attempts,
                    closeCalls, upFailedAt, produced, nRepos >>

\* route.ts:154-159, 188 and 575-587  octokit.repos.listCommits; a failure is
\* swallowed.  Revision 2 keeps the non-empty first lines of the messages.
ListCommits ==
    /\ pc = "list_commits"
    /\ calls' = Append(calls, Call("repos.listCommits", ri, "", 0))
    /\ IF remote.commits >= 0
       THEN /\ nCommits' = remote.commits
            /\ IF version = 1
               THEN /\ recentCommits' = recentCommits
                    /\ pc' = IF remote.commits > 0 THEN "get_commit" ELSE "get_pkg"
               ELSE /\ recentCommits' =
                         [i \in 1..(remote.commits - remote.blank) |-> "message"]
                    /\ pc' = "get_pkg"
       ELSE /\ pc' = "get_pkg"
            /\ UNCHANGED << nCommits, recentCommits >>
    /\ UNCHANGED << ri, ci, packageJson, readmeSnippet, codeAnalysis, fi,
                    summaries, remote >>
    /\ LoopFrame

\* route.ts:161-187  octokit.repos.getCommit for one commit; on failure the
\* commit is pushed with basic info.
GetCommit ==
    /\ pc = "get_commit"
    /\ ci' = ci + 1
    /\ calls' = Append(calls, Call("repos.getCommit", ri, "", ci + 1))
    /\ recentCommits' = Append(recentCommits,
                               IF remote.detail THEN "detailed" ELSE "basic")
    /\ pc' = IF ci + 1 < nCommits THEN "get_commit" ELSE "get_pkg"
    /\ UNCHANGED << ri, nCommits, packageJson, readmeSnippet, codeAnalysis, fi,
                    summaries, remote >>
    /\ LoopFrame

\* route.ts:195-206, 592-603  getContent(package.json); a failure of the call
\* or of JSON.parse is swallowed.
GetPackageJson ==
    /\ pc = "get_pkg"
    /\ calls' = Append(calls, Call("repos.getContent", ri, "package.json", 0))
    /\ packageJson' = remote.pkg
    /\ pc' = "get_readme"
    /\ UNCHANGED << ri, nCommits, ci, recentCommits, readmeSnippet,
                    codeAnalysis, fi, summaries, remote >>
    /\ LoopFrame

\* route.ts:209-220, 605-616  getContent(README.md); a failure is swallowed.
GetReadme ==
    /\ pc = "get_readme"
    /\ calls' = Append(calls, Call("repos.getContent", ri, "README.md", 0))
    /\ readmeSnippet' = remote.readme
    /\ IF version = 1
       THEN pc' = "code_file" /\ fi' = 1
       ELSE pc' = "push_summary" /\ fi' = fi
    /\ UNCHANGED << ri, nCommits, ci, recentCommits, packageJson,
                    codeAnalysis, summaries, remote >>
    /\ LoopFrame

\* route.ts:241-257  one candidate path: analysed and the search stops, or
\* (call failed, or not a file) the next path is tried.
GetCodeFile ==
    /\ pc = "code_file"
    /\ calls' = Append(calls, Call("repos.getContent", ri, codeFiles[fi], 0))
    /\ IF remote.code = fi
       THEN /\ codeAnalysis' = codeFiles[fi]
            /\ pc' = "push_summary"
            /\ fi' = fi
       ELSE /\ codeAnalysis' = codeAnalysis
            /\ IF fi < Len(codeFiles)
               THEN pc' = pc /\ fi' = fi + 1
               ELSE pc' = "push_summary" /\ fi' = fi
    /\ UNCHANGED << ri, nCommits, ci, recentCommits, packageJson,
                    readmeSnippet, summaries, remote >>
    /\ LoopFrame

\* route.ts:259-283, 618-626  summaries.push
PushSummary ==
    /\ pc = "push_summary"
    /\ summaries' = Append(summaries,
           [ name |-> ri,
             recentCommits |-> IF Len(recentCommits) > 0
                               THEN recentCommits ELSE <<"No commits">>,
             packageJson |-> packageJson,
             readmeSnippet |-> readmeSnippet,
             codeAnalysis |-> codeAnalysis ])
    /\ pc' = "loop"
    /\ UNCHANGED << calls, ri, nCommits, ci, recentCommits, packageJson,
                    readmeSnippet, codeAnalysis, fi, remote >>
    /\ LoopFrame


\* ------------------------------------------------------------ the task: generation

\* route.ts:422-426, 650-652
SendStatusGen ==
    /\ pc = "status_gen"
    /\ SendEvent(Event("status",
                       IF mode = "roast"
                       THEN IF version = 1 THEN <<"Preparing epic roast...">>
                                           ELSE <<"Preparing roast...">>
                       ELSE <<"Generating feedback...">>),
                 "response_start")
    /\ SendFrame

\* Variant of SendResponseStart: the start of the response is announced as
\* one more status event.
SendResponseStartAsStatus ==
    /\ pc = "response_start"
    /\ SendEvent(Event("status", <<"Generating response...">>), "stream_text")
    /\ SendFrame

\* Variant of SendResponseStart: the event is not sent.
SendResponseStartOmitted ==
    /\ pc = "response_start"
    /\ Goto("stream_text")
    /\ UNCHANGED attempts
    /\ SendFrame

\* route.ts:457, 662
SendResponseStart ==
    /\ pc = "response_start"
    /\ SendEvent(Event("response_start", <<>>), "stream_text")
    /\ SendFrame

\* route.ts:460-466, 665-671  streamText({...}) returns at once
StreamText ==
    /\ pc = "stream_text"
    /\ calls' = Append(calls, Call("streamText", 0, "", 0))
    /\ Goto("next_chunk")
    /\ UNCHANGED << reqVars, repoVars, ret, inCatch, sink, storedError,
                    canceled, events, attempts, closeCalls, errorMsg, errClass,
                    upFailedAt, produced >>

\* route.ts:468, 674  one step of for await (const chunk of result.textStream):
\* the stream yields a fragment, ends, or fails.
NextChunk ==
    /\ pc = "next_chunk"
    /\ \/ \E f \in Fragments :
            /\ Len(produced) < MaxFragments
            /\ produced' = Append(produced, f)
            /\ Goto("send_chunk")
            /\ UNCHANGED upFailedAt
       \/ /\ Goto("response_end")
          /\ UNCHANGED << produced, upFailedAt >>
       \/ \E e \in StreamErrors :
            /\ UpstreamFails("streamText", e)
            /\ produced' = produced
    /\ UNCHANGED << reqVars, repoVars, ret, inCatch, sink, storedError,
                    canceled, events, attempts, closeCalls, calls, errorMsg,
                    errClass >>

\* Variant of CurrentChunk: the loop relays the first fragment every time.
FirstChunk == produced[1]

\* The fragment the loop body relays.
CurrentChunk == produced[Len(produced)]

\* route.ts:469, 675
SendChunk ==
    /\ pc = "send_chunk"
    /\ SendEvent(Event("response_chunk", <<CurrentChunk>>), "next_chunk")
    /\ SendFrame

\* Variant of SendResponseEnd: the event is not sent.
SendResponseEndOmitted ==
    /\ pc = "response_end"
    /\ Goto("close_ok")
    /\ UNCHANGED attempts
    /\ SendFrame

\* route.ts:472, 678
SendResponseEnd ==
    /\ pc = "response_end"
    /\ SendEvent(Event("response_end", <<>>), "close_ok")
    /\ SendFrame

\* route.ts:473, 679
CloseOk ==
    /\ pc = "close_ok"
    /\ WriterClose("done")
    /\ CloseFrame

\* ------------------------------------------------------------ the task: catch block

\* route.ts:478, 684  error.status === 403 || error.message?.includes("rate limit")
IsRateLimited(e) ==
    \/ e.hasStatus /\ e.status = 403
    \/ e.hasMessage /\ Includes(e.message, <<"rate", "limit">>)

\* route.ts:480, 686  error.status === 404
IsNotFound(e) == e.hasStatus /\ e.status = 404

\* route.ts:478-484  the branch taken
Classify(e) ==
    IF IsRateLimited(e) THEN "rate_limited"
    ELSE IF IsNotFound(e) THEN "not_found"
    ELSE "unknown"

\* Variant of ErrorMessage: the 404 test comes before the rate-limit test.
ErrorMessageNotFoundFirst(e) ==
    IF IsNotFound(e) THEN <<"User not found on GitHub">>
    ELSE IF IsRateLimited(e)
    THEN <<"GitHub rate limit exceeded. Add GITHUB_TOKEN to .env">>
    ELSE IF e.hasMessage /\ e.message # <<>> THEN e.message
    ELSE <<"Something went wrong">>

\* route.ts:477-484, 683-690  errorMsg
ErrorMessage(e) ==
    IF IsRateLimited(e)
    THEN <<"GitHub rate limit exceeded. Add GITHUB_TOKEN to .env">>
    ELSE IF IsNotFound(e) THEN <<"User not found on GitHub">>
    ELSE IF e.hasMessage /\ e.message # <<>> THEN e.message
    ELSE <<"Something went wrong">>

\* Variant of ClassifierThrows: error.message.includes without the optional
\* chaining, which raises when the value has no message.
ClassifierThrowsNoOptionalChain(e) ==
    \/ e.kind = "undefined"
    \/ ~(e.hasStatus /\ e.status = 403) /\ ~e.hasMessage

\* Reading error.status of undefined raises a TypeError.
ClassifierThrows(e) == e.kind = "undefined"

\* route.ts:474-484, 680-690  entering the catch block and choosing errorMsg
CatchClassify ==
    /\ pc = "catch"
    /\ awaiting = "none"
    /\ inCatch' = TRUE
    /\ IF ClassifierThrows(error)
       THEN /\ escaped' = TRUE
            /\ pc' = "done"
            /\ errClass' = "threw"
            /\ errorMsg' = errorMsg
       ELSE /\ escaped' = escaped
            /\ pc' = "send_error"
            /\ errClass' = Classify(error)
            /\ errorMsg' = ErrorMessage(error)
    /\ UNCHANGED << reqVars, repoVars, ret, cont, awaiting, pending, sink,
                    storedError, canceled, events, attempts, closeCalls, calls,
                    error, upFailedAt, produced >>

\* route.ts:486, 692
SendError ==
    /\ pc = "send_error"
    /\ SendEvent(Event("error", errorMsg), "close_err")
    /\ SendFrame

\* Variant of CloseErr: the catch block does not close the sink.
CloseErrOmitted ==
    /\ pc = "close_err"
    /\ Goto("done")
    /\ UNCHANGED << closeCalls, sink >>
    /\ CloseFrame

\* route.ts:487, 693
CloseErr ==
    /\ pc = "close_err"
    /\ WriterClose("done")
    /\ CloseFrame

\* ------------------------------------------------------------ specification

Next ==
    \/ ParseRequest
    \/ ReturnResponse
    \/ Cancel
    \/ WriteResolved
    \/ WriteRejected
    \/ SendStatusProfile
    \/ GetByUsername
    \/ SendStatusRepos
    \/ ListForUser
    \/ SendNoReposError
    \/ CloseNoRepos
    \/ SendStatusAnalyze
    \/ ForRepo
    \/ ListCommits
    \/ GetCommit
    \/ GetPackageJson
    \/ GetReadme
    \/ GetCodeFile
    \/ PushSummary
    \/ SendStatusGen
    \/ SendResponseStart
    \/ StreamText
    \/ NextChunk
    \/ SendChunk
    \/ SendResponseEnd
    \/ CloseOk
    \/ CatchClassify
    \/ SendError
    \/ CloseErr

Spec == Init /\ [][Next]_vars

\* A session whose client stays connected and keeps reading: no disconnect,
\* hence no rejected write.  Each upstream call returns or fails, the token
\* stream ends (NextChunk), the handler returns the response and the client
\* reads each pending write; the event loop runs every continuation that is
\* ready.
TaskStep ==
    \/ ParseRequest
    \/ SendStatusProfile
    \/ GetByUsername
    \/ SendStatusRepos
    \/ ListForUser
    \/ SendNoReposError
    \/ CloseNoRepos
    \/ SendStatusAnalyze
    \/ ForRepo
    \/ ListCommits
    \/ GetCommit
    \/ GetPackageJson
    \/ GetReadme
    \/ GetCodeFile
    \/ PushSummary
    \/ SendStatusGen
    \/ SendResponseStart
    \/ StreamText
    \/ NextChunk
    \/ SendChunk
    \/ SendResponseEnd
    \/ CloseOk
    \/ CatchClassify
    \/ SendError
    \/ CloseErr

NextConnected ==
    \/ TaskStep
    \/ ReturnResponse
    \/ WriteResolved

SpecConnected ==
    /\ Init
    /\ [][NextConnected]_vars
    /\ WF_vars(TaskStep)
    /\ WF_vars(ReturnResponse)
    /\ WF_vars(WriteResolved)

\* ------------------------------------------------------------ the page

\* What the user can have typed into the input.
PageUsernames == {"", " ", "octocat"}

\* String.prototype.trim
Trim(u) == IF u = " " THEN "" ELSE u

\* The events a response body can carry.
ServerEvents ==
    { Event("status", <<"Working...">>), Event("response_start", <<>>),
      Event("response_end", <<>>), Event("error", <<"boom">>) }
    \cup { Event("response_chunk", <<f>>) : f \in Fragments }

\* How far the body of a response has got: the relay sends status events,
\* then response_start, then chunks, and nothing after a response_end or an
\* error.
NextEvents(stage) ==
    CASE stage = "status" ->
            { e \in ServerEvents :
                e.type \in {"status", "response_start", "error"} }
      [] stage = "chunks" ->
            { e \in ServerEvents :
                e.type \in {"response_chunk", "response_end", "error"} }
      [] OTHER -> {}

StageAfter(stage, e) ==
    CASE e.type = "response_start" -> "chunks"
      [] e.type \in {"response_end", "error"} -> "ended"
      [] OTHER -> stage

\* One handleSubmit invocation that got past its guard: the await it is
\* suspended in ("fetch", "text", "reading") or "returned"; whether its
\* AbortController was aborted; how far its response body has got; how it
\* ended.
NewRequest ==
    [phase |-> "fetch", aborted |-> FALSE, stage |-> "status", outcome |-> ""]

Requests == 1..MaxRequests

InFlight(r) == r \in DOMAIN requests /\ requests[r].phase # "returned"

\* An aborted fetch or read rejects at once, so the catch block of the
\* aborted handleSubmit runs before the next task (user event or network
\* read) is taken.
MicrotasksDrained ==
    \A r \in DOMAIN requests : ~(requests[r].aborted /\ InFlight(r))

\* A step of the page leaves the relay alone.
PageFrame == UNCHANGED << relayVars, codecVars, sessVars >>

\* page.tsx:297, 301  onChange of the input, which is disabled while loading
SetUsername(u) ==
    /\ MicrotasksDrained
    /\ ~page.loading
    /\ u # page.username
    /\ page' = [page EXCEPT !.username = u]
    /\ UNCHANGED << requests, received >>
    /\ PageFrame

\* Variant of HandleSubmit: the guard does not look at loading.
HandleSubmitIgnoresLoading ==
    /\ MicrotasksDrained
    /\ IF Trim(page.username) = ""
       THEN UNCHANGED << page, requests, received >>
       ELSE /\ Len(requests) < MaxRequests
            /\ page' = [page EXCEPT !.controllerRef = Len(requests) + 1,
                                    !.loading = TRUE,
                                    !.result = <<>>,
                                    !.status = "Starting...",
                                    !.copied = FALSE]
            /\ requests' = Append(requests, NewRequest)
            /\ received' = <<>>
    /\ PageFrame

\* page.tsx:50-66  handleSubmit up to its first await: the guard, the new
\* AbortController, the four state updates, and the fetch it issues.
HandleSubmit ==
    /\ MicrotasksDrained
    /\ IF Trim(page.username) = "" \/ page.loading
       THEN UNCHANGED << page, requests, received >>
       ELSE /\ Len(requests) < MaxRequests
            /\ page' = [page EXCEPT !.controllerRef = Len(requests) + 1,
                                    !.loading = TRUE,
                                    !.result = <<>>,
                                    !.status = "Starting...",
                                    !.copied = FALSE]
            /\ requests' = Append(requests, NewRequest)
            /\ received' = <<>>
    /\ PageFrame

\* page.tsx:61-68  fetch resolves with a response, ok or not
FetchResolves(r) ==
    /\ MicrotasksDrained
    /\ r \in DOMAIN requests
    /\ requests[r].phase = "fetch"
    /\ \E ok \in BOOLEAN :
         requests' = [requests EXCEPT
                         ![r].phase = IF ok THEN "reading" ELSE "text"]
    /\ UNCHANGED << page, received >>
    /\ PageFrame

\* page.tsx:68-74, 136-138  the response is not ok: the text is shown, and
\* the return runs the finally block
TextResolves(r) ==
    /\ MicrotasksDrained
    /\ r \in DOMAIN requests
    /\ requests[r].phase = "text"
    /\ page' = [page EXCEPT !.result = <<"Error: ", "bad request">>,
                            !.status = "",
                            !.loading = FALSE,
                            !.controllerRef = 0]
    /\ requests' = [requests EXCEPT ![r].phase = "returned",
                                    ![r].outcome = "http_error"]
    /\ UNCHANGED received
    /\ PageFrame

\* Variant of Dispatch: an error event is appended to the text shown.
DispatchAppendsError(pg, e) ==
    CASE e.type = "status" -> [pg EXCEPT !.status = e.content[1]]
      [] e.type = "response_start" -> [pg EXCEPT !.status = ""]
      [] e.type = "response_chunk" ->
            [pg EXCEPT !.result = pg.result \o e.content]
      [] e.type = "response_end" ->
            [pg EXCEPT !.loading = FALSE, !.status = ""]
      [] e.type = "error" ->
            [pg EXCEPT !.result = pg.result \o e.content, !.status = "",
                       !.loading = FALSE]
      [] OTHER -> pg

\* page.tsx:95-118  switch (parsed.type)
Dispatch(pg, e) ==
    CASE e.type = "status" -> [pg EXCEPT !.status = e.content[1]]
      [] e.type = "response_start" -> [pg EXCEPT !.status = ""]
      [] e.type = "response_chunk" ->
            [pg EXCEPT !.result = pg.result \o e.content]
      [] e.type = "response_end" ->
            [pg EXCEPT !.loading = FALSE, !.status = ""]
      [] e.type = "error" ->
            [pg EXCEPT !.result = e.content, !.status = "",
                       !.loading = FALSE]
      [] OTHER -> pg

\* page.tsx:80-121  reader.read() yields a chunk holding the next event,
\* which is parsed and dispatched
ReadEvent(r) ==
    /\ MicrotasksDrained
    /\ r \in DOMAIN requests
    /\ requests[r].phase = "reading"
    /\ Len(received) < MaxEvents
    /\ \E e \in NextEvents(requests[r].stage) :
         /\ page' = Dispatch(page, e)
         /\ requests' = [requests EXCEPT
                            ![r].stage = StageAfter(requests[r].stage, e)]
         /\ received' = Append(received, e)
    /\ PageFrame

\* page.tsx:81-82, 136-138  reader.read() reports done: break, then finally
ReadDone(r) ==
    /\ MicrotasksDrained
    /\ r \in DOMAIN requests
    /\ requests[r].phase = "reading"
    /\ page' = [page EXCEPT !.controllerRef = 0]
    /\ requests' = [requests EXCEPT ![r].phase = "returned",
                                    ![r].outcome = "done"]
    /\ UNCHANGED received
    /\ PageFrame

\* page.tsx:125-138  fetch, res.text() or reader.read() rejects with a
\* connection error: the else branch of the catch block, then finally
ConnectionFails(r) ==
    /\ MicrotasksDrained
    /\ InFlight(r)
    /\ page' = [page EXCEPT !.result = <<"Failed to connect. Try again.">>,
                            !.status = "",
                            !.loading = FALSE,
                            !.controllerRef = 0]
    /\ requests' = [requests EXCEPT ![r].phase = "returned",
                                    ![r].outcome = "connect_error"]
    /\ UNCHANGED received
    /\ PageFrame

\* page.tsx:140-146, 306-309  handleStop; the Stop button is rendered only
\* while loading
HandleStop ==
    /\ MicrotasksDrained
    /\ page.loading
    /\ IF page.controllerRef # 0
       THEN /\ requests' = [requests EXCEPT
                               ![page.controllerRef].aborted = TRUE]
            /\ page' = [page EXCEPT !.loading = FALSE, !.status = "Stopped"]
       ELSE UNCHANGED << page, requests >>
    /\ UNCHANGED received
    /\ PageFrame

\* page.tsx:125-128, 136-138  the pending await of an aborted request rejects
\* with an AbortError: the first branch of the catch block, then finally
AbortCaught(r) ==
    /\ InFlight(r)
    /\ requests[r].aborted
    /\ page' = [page EXCEPT !.status = "Stopped by user",
                            !.loading = FALSE,
                            !.controllerRef = 0]
    /\ requests' = [requests EXCEPT ![r].phase = "returned",
                                    ![r].outcome = "aborted"]
    /\ UNCHANGED received
    /\ PageFrame

\* page.tsx:148-152  handleCopy, when the clipboard write succeeds (the
\* timeout that clears copied two seconds later is left out)
HandleCopy ==
    /\ MicrotasksDrained
    /\ page.result # <<>>
    /\ ~page.copied
    /\ page' = [page EXCEPT !.copied = TRUE]
    /\ UNCHANGED << requests, received >>
    /\ PageFrame

\* What the network and the event loop do on their own.
Continuation ==
    \/ \E r \in Requests : FetchResolves(r)
    \/ \E r \in Requests : TextResolves(r)
    \/ \E r \in Requests : ReadEvent(r)
    \/ \E r \in Requests : ReadDone(r)
    \/ \E r \in Requests : ConnectionFails(r)
    \/ \E r \in Requests : AbortCaught(r)

\* What the user does.
UserStep ==
    \/ \E u \in PageUsernames : SetUsername(u)
    \/ HandleSubmit
    \/ HandleStop
    \/ HandleCopy

NextPage ==
    \/ UserStep
    \/ Continuation

\* The page alone, the relay left at rest.
InitPage ==
    /\ Init
    /\ version = 1
    /\ username = "octocat"
    /\ mode = "roast"
    /\ bodyOk

\* Every pending await of a request settles: the response arrives, the body
\* yields its next read or ends, or the connection fails.
SpecPage ==
    /\ InitPage
    /\ [][NextPage]_vars
    /\ WF_vars(Continuation)

\* ------------------------------------------------------------ the event stream
\* Text is a sequence of characters and the wire a sequence of bytes, each a
\* string.  The characters that matter to the format are named.
LF == "LF"
Quote == "QUOTE"
Backslash == "BACKSLASH"
Eacute == "U+00E9"
Replacement == "U+FFFD"


\* What the page reads of a parsed record: parsed.type and parsed.content,
\* the latter undefined when the record has no such key.
WireEvent(t, h, c) == [type |-> t, hasContent |-> h, content |-> c]
Undecodable == WireEvent("", FALSE, <<>>)
ContentTypes == {"status", "response_chunk", "error"}
BareTypes == {"response_start", "response_end"}

\* The events written in the check: generated text and messages hold line
\* feeds, quotes, backslashes and characters of more than one byte.
WireEvents ==
    { WireEvent("status", TRUE, << Eacute >>),
      WireEvent("response_start", FALSE, <<>>),
      WireEvent("response_chunk", TRUE, << LF, "d" >>),
      WireEvent("response_chunk", TRUE, << Backslash, "n" >>),
      WireEvent("error", TRUE, << Quote, "}" >>) }

\* JSON.stringify of a string value, without the surrounding quotes.
RECURSIVE Escape(_)
Escape(text) ==
    IF text = <<>> THEN <<>>
    ELSE (CASE Head(text) = LF -> << Backslash, "n" >>
            [] Head(text) = Quote -> << Backslash, Quote >>
            [] Head(text) = Backslash -> << Backslash, Backslash >>
            [] OTHER -> << Head(text) >>) \o Escape(Tail(text))

\* route.ts:105  JSON.stringify({ type, ...data }); the fixed pieces
\* `"type":` and `,"content":` are one token each.
Stringify(e) ==
    << "{", "type:", e.type >> \o
    (IF e.hasContent
     THEN << ",content:", Quote >> \o Escape(e.content) \o << Quote >>
     ELSE <<>>) \o
    << "}" >>

DataPrefix == << "d", "a", "t", "a", ":", " " >>

\* route.ts:105  `data: ${JSON.stringify({ type, ...data })}\n\n`
Message(e) == DataPrefix \o Stringify(e) \o << LF, LF >>

\* route.ts:106  encoder.encode(message)
RECURSIVE Utf8(_)
Utf8(text) ==
    IF text = <<>> THEN <<>>
    ELSE (IF Head(text) = Eacute THEN << "C3", "A9" >> ELSE << Head(text) >>)
         \o Utf8(Tail(text))

\* page.tsx:84  decoder.decode(value, { stream: true }): an incomplete
\* character at the end of the bytes is held back for the next call; a byte
\* that cannot start or continue a character decodes to U+FFFD.
Held(bytes) ==
    IF bytes # <<>> /\ bytes[Len(bytes)] = "C3" THEN << "C3" >> ELSE <<>>

RECURSIVE DecodeComplete(_)
DecodeComplete(bytes) ==
    IF bytes = <<>> THEN <<>>
    ELSE IF Head(bytes) = "C3"
         THEN IF Len(bytes) >= 2 /\ bytes[2] = "A9"
              THEN << Eacute >> \o DecodeComplete(SubSeq(bytes, 3, Len(bytes)))
              ELSE << Replacement >> \o DecodeComplete(Tail(bytes))
         ELSE IF Head(bytes) = "A9"
              THEN << Replacement >> \o DecodeComplete(Tail(bytes))
              ELSE << Head(bytes) >> \o DecodeComplete(Tail(bytes))

DecodeStream(bytes) ==
    DecodeComplete(SubSeq(bytes, 1, Len(bytes) - Len(Held(bytes))))

\* page.tsx:86  buffer.split("\n"): at least one piece, the last one being
\* what follows the last line feed.
RECURSIVE SplitLines(_)
SplitLines(text) ==
    IF \A i \in 1..Len(text) : text[i] # LF
    THEN << text >>
    ELSE LET i == CHOOSE j \in 1..Len(text) :
                      /\ text[j] = LF
                      /\ \A k \in 1..(j - 1) : text[k] # LF
         IN  << SubSeq(text, 1, i - 1) >> \o
             SplitLines(SubSeq(text, i + 1, Len(text)))

\* page.tsx:90  line.startsWith("data: ")
StartsWith(line, prefix) ==
    /\ Len(line) >= Len(prefix)
    /\ SubSeq(line, 1, Len(prefix)) = prefix

\* The characters of a JSON string between its quotes; not ok when the text
\* holds a bare quote or line feed, or a backslash that starts no escape.
RECURSIVE Unescape(_)
Unescape(body) ==
    IF body = <<>> THEN [ok |-> TRUE, text |-> <<>>]
    ELSE IF Head(body) = Backslash
         THEN IF Len(body) < 2 \/ body[2] \notin {"n", Quote, Backslash}
              THEN [ok |-> FALSE, text |-> <<>>]
              ELSE LET rest == Unescape(SubSeq(body, 3, Len(body)))
                   IN  [ok |-> rest.ok,
                        text |-> << IF body[2] = "n" THEN LF ELSE body[2] >>
                                 \o rest.text]
         ELSE IF Head(body) \in {Quote, LF, Replacement}
              THEN [ok |-> FALSE, text |-> <<>>]
              ELSE LET rest == Unescape(Tail(body))
                   IN  [ok |-> rest.ok, text |-> << Head(body) >> \o rest.text]

\* page.tsx:92-93  JSON.parse(jsonStr), which throws on anything that is
\* not one complete record.
JsonParse(t) ==
    IF /\ Len(t) >= 4
       /\ t[1] = "{"
       /\ t[2] = "type:"
       /\ t[3] \in ContentTypes \cup BareTypes
       /\ t[Len(t)] = "}"
    THEN IF Len(t) = 4
         THEN [ok |-> TRUE, value |-> WireEvent(t[3], FALSE, <<>>)]
         ELSE IF /\ Len(t) >= 7
                 /\ t[4] = ",content:"
                 /\ t[5] = Quote
                 /\ t[Len(t) - 1] = Quote
              THEN LET u == Unescape(SubSeq(t, 6, Len(t) - 2))
                   IN  [ok |-> u.ok, value |-> WireEvent(t[3], TRUE, u.text)]
              ELSE [ok |-> FALSE, value |-> Undecodable]
    ELSE [ok |-> FALSE, value |-> Undecodable]

\* page.tsx:89-120  the loop over the complete lines: a line that does not
\* start with the prefix is skipped, one that does not parse is swallowed
\* by the catch, and the others are dispatched in order.
RECURSIVE ParseLines(_)
ParseLines(lines) ==
    IF lines = <<>> THEN <<>>
    ELSE LET line == Head(lines)
             parsed == JsonParse(SubSeq(line, Len(DataPrefix) + 1, Len(line)))
         IN  (IF StartsWith(line, DataPrefix) /\ parsed.ok
              THEN << parsed.value >>
              ELSE <<>>) \o ParseLines(Tail(lines))

CodecFrame == UNCHANGED << relayVars, pageVars, sessVars >>

\* route.ts:104-107  sendEvent: the message is encoded and written as one
\* chunk to the response body.
EncodeAndWrite(e) ==
    /\ Len(sent) < MaxSent
    /\ wire' = wire \o Utf8(Message(e))
    /\ sent' = Append(sent, e)
    /\ UNCHANGED << carry, buffer, dispatched >>
    /\ CodecFrame

\* Variant of ReadBytes: each read is split and parsed on its own, nothing
\* being kept from one read to the next.
ReadBytesUnbuffered(k) ==
    /\ k \in 1..Len(wire)
    /\ LET bytes == carry \o SubSeq(wire, 1, k)
           lines == SplitLines(DecodeStream(bytes))
       IN  /\ carry' = Held(bytes)
           /\ buffer' = <<>>
           /\ dispatched' = dispatched \o ParseLines(lines)
    /\ wire' = SubSeq(wire, k + 1, Len(wire))
    /\ UNCHANGED sent
    /\ CodecFrame

\* page.tsx:80-121  one turn of the read loop: reader.read() returns the
\* next k bytes of the body, wherever the network cut them; they are
\* decoded and appended to the buffer, the complete lines are parsed and
\* dispatched, and what follows the last line feed is kept.
ReadBytes(k) ==
    /\ k \in 1..Len(wire)
    /\ LET bytes == carry \o SubSeq(wire, 1, k)
           lines == SplitLines(buffer \o DecodeStream(bytes))
       IN  /\ carry' = Held(bytes)
           /\ buffer' = lines[Len(lines)]
           /\ dispatched' =
                  dispatched \o ParseLines(SubSeq(lines, 1, Len(lines) - 1))
    /\ wire' = SubSeq(wire, k + 1, Len(wire))
    /\ UNCHANGED sent
    /\ CodecFrame

Send == \E e \in WireEvents : EncodeAndWrite(e)

Read == \E k \in 1..Len(wire) : ReadBytes(k)

NextCodec ==
    \/ Send
    \/ Read

\* The stream alone, the relay and the page left at rest.
SpecCodec == InitPage /\ [][NextCodec]_vars

\* ------------------------------------------------------------ several sessions
\* Several invocations of POST on one server, each reduced to what it shares
\* with the others.  route.ts:100-107 are `const` declarations inside POST,
\* so each invocation has its own stream and writer, and its sendEvent and
\* its task close over them; the module-level octokit and model (12-16) are
\* clients that keep nothing from one call to the next.
SessionIds == 1..MaxSessions

\* route.ts:101  new TransformStream()
NewSink == [state |-> "open", events |-> <<>>]

Running(s) == s \in DOMAIN sessions /\ sessions[s].phase # "done"

\* What writer.write(chunk) does to the sink the writer belongs to: the
\* chunk is appended when the sink is open and the write rejects otherwise.
Written(s, type) ==
    LET w == sessions[s].writer
    IN  IF sinks[w].state = "open"
        THEN [sinks EXCEPT ![w].events = Append(@, [by |-> s, type |-> type])]
        ELSE sinks

\* What writer.close() does: an open sink is closed.
Closed(snk, w) ==
    IF snk[w].state = "open" THEN [snk EXCEPT ![w].state = "closed"] ELSE snk

SessionFrame == UNCHANGED << relayVars, pageVars, codecVars >>

\* Variant of Post: the writer is kept in a variable of the module, which
\* every invocation assigns.
PostSharedWriter ==
    /\ Len(sessions) < MaxSessions
    /\ sinks' = Append(sinks, NewSink)
    /\ sessions' =
          [s \in 1..(Len(sessions) + 1) |->
              [writer |-> Len(sinks) + 1,
               phase |-> IF s \in DOMAIN sessions THEN sessions[s].phase
                                                   ELSE "status"]]
    /\ actor' = Len(sessions) + 1
    /\ SessionFrame

\* route.ts:93-109  a request arrives: the invocation creates its stream and
\* its writer and starts its task.
Post ==
    /\ Len(sessions) < MaxSessions
    /\ sinks' = Append(sinks, NewSink)
    /\ sessions' = Append(sessions,
                          [writer |-> Len(sinks) + 1, phase |-> "status"])
    /\ actor' = Len(sessions) + 1
    /\ SessionFrame

\* route.ts:474-488  a rejected write takes the task to its catch block,
\* whose own write and close reject as well: the task ends.
AfterWrite(s, next) ==
    IF sinks[sessions[s].writer].state = "open"
    THEN [sessions EXCEPT ![s].phase = next]
    ELSE [sessions EXCEPT ![s].phase = "done"]

\* route.ts:111, 127, 143, 422  await sendEvent("status", ...)
SessionStatus(s) ==
    /\ Running(s)
    /\ sessions[s].phase = "status"
    /\ Len(sinks[sessions[s].writer].events) < MaxEvents
    /\ sinks' = Written(s, "status")
    /\ sessions' = AfterWrite(s, "status")
    /\ actor' = s
    /\ SessionFrame

\* route.ts:457  await sendEvent("response_start", {})
SessionStart(s) ==
    /\ Running(s)
    /\ sessions[s].phase = "status"
    /\ sinks' = Written(s, "response_start")
    /\ sessions' = AfterWrite(s, "chunks")
    /\ actor' = s
    /\ SessionFrame

\* route.ts:468-470  await sendEvent("response_chunk", ...)
SessionChunk(s) ==
    /\ Running(s)
    /\ sessions[s].phase = "chunks"
    /\ Len(sinks[sessions[s].writer].events) < MaxEvents
    /\ sinks' = Written(s, "response_chunk")
    /\ sessions' = AfterWrite(s, "chunks")
    /\ actor' = s
    /\ SessionFrame

\* route.ts:472-473  response_end, then writer.close()
SessionEnd(s) ==
    /\ Running(s)
    /\ sessions[s].phase = "chunks"
    /\ sinks' = Closed(Written(s, "response_end"), sessions[s].writer)
    /\ sessions' = [sessions EXCEPT ![s].phase = "done"]
    /\ actor' = s
    /\ SessionFrame

\* route.ts:474-488  an upstream call of the session fails: the catch block
\* sends the error event and closes the writer.
SessionFail(s) ==
    /\ Running(s)
    /\ sinks' = Closed(Written(s, "error"), sessions[s].writer)
    /\ sessions' = [sessions EXCEPT ![s].phase = "done"]
    /\ actor' = s
    /\ SessionFrame

\* The client of session s disconnects: the response that holds the
\* readable side of its stream cancels it.
SessionCancel(s) ==
    /\ s \in DOMAIN sinks
    /\ sinks[s].state = "open"
    /\ sinks' = [sinks EXCEPT ![s].state = "errored"]
    /\ actor' = s
    /\ UNCHANGED sessions
    /\ SessionFrame

NextSessions ==
    \/ Post
    \/ \E s \in SessionIds : SessionStatus(s)
    \/ \E s \in SessionIds : SessionStart(s)
    \/ \E s \in SessionIds : SessionChunk(s)
    \/ \E s \in SessionIds : SessionEnd(s)
    \/ \E s \in SessionIds : SessionFail(s)
    \/ \E s \in SessionIds : SessionCancel(s)

\* The sessions alone, the single-session relay and the page left at rest.
SpecSessions == InitPage /\ [][NextSessions]_vars

\* ------------------------------------------------------------ properties

IsChunk(e) == e.type = "response_chunk"
CountType(t) == Cardinality({i \in 1..Len(events) : events[i].type = t})
ChunkContents ==
    LET chunks == SelectSeq(events, IsChunk)
    IN  [i \in 1..Len(chunks) |-> chunks[i].content]
LastEvent == events[Len(events)]

\* status* response_start response_chunk* response_end
MatchesNormal(evs) ==
    \E k \in 1..(Len(evs) - 1) :
        /\ evs[k].type = "response_start"
        /\ \A i \in 1..(k - 1) : evs[i].type = "status"
        /\ \A i \in (k + 1)..(Len(evs) - 1) : evs[i].type = "response_chunk"
        /\ evs[Len(evs)].type = "response_end"

\* The task ran its try block to the end: no upstream call failed, the
\* listing was not empty, the token stream ended, no write or close failed.
NormalCompletion ==
    /\ pc = "done"
    /\ ret = 200
    /\ ~inCatch
    /\ upFailedAt = ""
    /\ nRepos > 0

\* The sink was torn down by the client's disconnect.
Aborted == sink = "errored"

\* C1: a session that completes normally has written
\* status* response_start response_chunk* response_end, its last act was to
\* close the sink (once, nothing attempted after response_end), and the sink
\* is closed.
C1_NormalSequence ==
    NormalCompletion =>
        /\ MatchesNormal(events)
        /\ sink = "closed"
        /\ Len(closeCalls) = 1
        /\ ~closeCalls[1].raised
        /\ Len(attempts) = Len(events)
        /\ attempts[Len(attempts)].event.type = "response_end"

C1_Witness ==
    /\ NormalCompletion
    /\ Len(produced) = MaxFragments
    /\ CountType("status") >= 3

\* C2: the response_chunk events written are, in order, exactly the
\* fragments the token stream has yielded (at most the one being written is
\* missing), each as the content of one event; when generation finishes all
\* of them lie between the single response_start and the single response_end.
C2_ChunkPerFragment ==
    LET written == ChunkContents IN
    /\ Len(written) <= Len(produced)
    /\ Len(written) >= Len(produced) - 1
    /\ \A i \in 1..Len(written) : written[i] = <<produced[i]>>
    /\ pc \in {"next_chunk", "response_end", "close_ok"}
          => Len(written) = Len(produced)
    /\ NormalCompletion =>
          /\ Len(written) = Len(produced)
          /\ CountType("response_start") = 1
          /\ CountType("response_end") = 1
          /\ MatchesNormal(events)

C2_Witness ==
    /\ NormalCompletion
    /\ Len(produced) >= 2
    /\ produced[1] # produced[2]
    /\ CountType("response_chunk") = Len(produced)

C4_NoWriteAfterClose ==
    \A i \in 1..Len(attempts) : attempts[i].sink = "open"

\* C5: no rejection escapes the background task.
C5_NeverRaises == ~escaped

\* C6: when a top-level upstream call fails (user lookup, listing, or the
\* token stream, also mid-stream) and the client has not disconnected, the
\* finished session has written exactly one error event, carrying the
\* classification's message, as its last event, no response_end, and has
\* closed the sink.
C6_SingleErrorOnFailure ==
    (pc = "done" /\ upFailedAt # "" /\ ~Aborted) =>
        /\ CountType("error") = 1
        /\ CountType("response_end") = 0
        /\ LastEvent = Event("error", ErrorMessage(error))
        /\ sink = "closed"
        /\ Len(closeCalls) = 1
        /\ ~escaped

C6_Witness ==
    /\ pc = "done"
    /\ upFailedAt = "streamText"
    /\ ~Aborted
    /\ CountType("response_chunk") >= 1
    /\ CountType("error") = 1

\* C7: whatever an upstream call fails with, the classification yields one of
\* not_found, rate_limited, unknown, and does not itself fail.
C7_ClassificationTotal ==
    (inCatch /\ upFailedAt # "") =>
        /\ errClass \in {"not_found", "rate_limited", "unknown"}
        /\ errorMsg # <<>>

C7_Witness ==
    /\ inCatch
    /\ upFailedAt # ""
    /\ error = Err(FALSE, 0, FALSE, <<>>)
    /\ errClass = "unknown"

\* C8: when the listing returns zero repositories, no response_start or
\* response_chunk is ever written and no per-repository or generation call is
\* made; unless the client disconnects, the finished session has written
\* exactly one error event, whose content contains the handle, and has closed
\* the sink.
C8_NoRepos ==
    nRepos = 0 =>
        /\ CountType("response_start") = 0
        /\ CountType("response_chunk") = 0
        /\ \A i \in 1..Len(calls) :
              calls[i].op \in {"users.getByUsername", "repos.listForUser"}
        /\ (pc = "done" /\ ~Aborted) =>
              /\ CountType("error") = 1
              /\ LastEvent.type = "error"
              /\ \E j \in 1..Len(LastEvent.content) :
                    LastEvent.content[j] = username
              /\ sink = "closed"

C8_Witness ==
    /\ nRepos = 0
    /\ pc = "done"
    /\ ~Aborted
    /\ username = "octocat"
    /\ CountType("error") = 1

\* The handle a target identifier denotes: a profile URL with its host prefix
\* and trailing slash stripped.
BareHandle(u) == IF u = "https://github.com/octocat/" THEN "octocat" ELSE u

\* C9: every upstream call receives the bare handle of the target identifier.
C9_NormalizedHandle ==
    \A i \in 1..Len(calls) : calls[i].user = BareHandle(username)

\* C10: closing a sink that is no longer open never raises.
C10_CloseTwiceSilent ==
    \A i \in 1..Len(closeCalls) : ~closeCalls[i].raised

\* C11: a session the client has aborted never attempts to write an error
\* event: a write that fails because of the disconnect does not lead to
\* sendEvent("error").
C11_AbortNeverSendsError ==
    \A i \in 1..Len(attempts) :
        attempts[i].event.type = "error" => attempts[i].sink # "errored"

\* C12: once the client has disconnected the session starts no further
\* upstream call and takes no further fragment from the token stream.
C12_NoUpstreamAfterCancel ==
    [][ canceled => (calls' = calls /\ produced' = produced) ]_vars

\* The session is over and the client stayed connected to its end.
FinishedConnected == pc = "done" /\ ret = 200 /\ ~Aborted

IsTerminal(e) == e.type \in {"response_end", "error"}

\* A response_start was written, and it is not the last event.
StartPrecedesTerminal ==
    \E k \in 1..(Len(events) - 1) :
        events[k].type = "response_start" /\ IsTerminal(LastEvent)

\* The task got as far as the generation phase.
ReachedGeneration == nRepos > 0 /\ upFailedAt \in {"", "streamText"}

\* C13 as stated: every session that is not aborted, also one that ends with
\* an error, has written exactly one response_start, before its terminal
\* event.
C13_ExactlyOneStart ==
    FinishedConnected =>
        /\ CountType("response_start") = 1
        /\ StartPrecedesTerminal

\* C13, amended: no session writes more than one response_start.  A session
\* that is not aborted has written exactly one, before its terminal event,
\* when it reached the generation phase; when it ended before that (user
\* lookup or listing failed, or no repository was listed) it has written
\* none, and its only event after the status events is the error event.
C13_StartIffGeneration ==
    /\ CountType("response_start") <= 1
    /\ FinishedConnected =>
          /\ IsTerminal(LastEvent)
          /\ IF ReachedGeneration
             THEN CountType("response_start") = 1 /\ StartPrecedesTerminal
             ELSE /\ CountType("response_start") = 0
                  /\ LastEvent.type = "error"
                  /\ \A i \in 1..(Len(events) - 1) : events[i].type = "status"

C13_Witness ==
    /\ FinishedConnected
    /\ upFailedAt = "repos.listForUser"
    /\ CountType("response_start") = 0
    /\ LastEvent.type = "error"
    /\ Len(events) >= 2

\* C14: a session writes at most one terminal event (response_end or
\* error, never both, never two errors), and nothing after it: a terminal
\* event is always the last event written.
C14_OneTerminalLast ==
    /\ CountType("response_end") + CountType("error") <= 1
    /\ \A i \in 1..Len(events) : IsTerminal(events[i]) => i = Len(events)

\* The zero-repositories error was written, the client then left, the close
\* failed and the catch block tried to send a second error.
C14_Witness ==
    /\ pc = "done"
    /\ nRepos = 0
    /\ CountType("error") = 1
    /\ LastEvent.type = "error"
    /\ Len(attempts) = Len(events) + 1
    /\ attempts[Len(attempts)].event.type = "error"

\* C15: in every session, failing and aborted ones included, the events
\* written so far are ordered by phase: every response_chunk has a
\* response_start before it, and no status event follows a response_start.
C15_PhaseOrder ==
    \A i \in 1..Len(events) :
        /\ events[i].type = "response_chunk" =>
              \E k \in 1..(i - 1) : events[k].type = "response_start"
        /\ events[i].type = "status" =>
              \A k \in 1..(i - 1) : events[k].type # "response_start"

\* An aborted session that had written status events, response_start and a
\* chunk before the client left.
C15_Witness ==
    /\ Aborted
    /\ pc = "done"
    /\ CountType("status") >= 2
    /\ CountType("response_chunk") >= 1
    /\ CountType("response_end") = 0
    /\ CountType("error") = 0

\* The handler has run past the reading of the request.
Entered == pc # "entry"

\* C16: a request whose body is read but carries no username (absent, empty,
\* falsy) is answered 400, and for it no sink is created, no event is written
\* or attempted, and no upstream call is made; 400 is returned for no other
\* request.
C16_MissingUsername400 ==
    /\ (Entered /\ bodyOk /\ username = "") =>
          /\ ret = 400
          /\ pc = "done"
          /\ sink = "none"
          /\ events = <<>>
          /\ attempts = <<>>
          /\ closeCalls = <<>>
          /\ calls = <<>>
    /\ ret = 400 => (bodyOk /\ username = "")

C16_Witness ==
    /\ Entered
    /\ bodyOk
    /\ username = ""
    /\ ret = 400

\* C17: a request whose client is already gone when the handler is entered
\* gets an early 499-equivalent return: the handler's step from its entry
\* creates no sink and starts no session.
C17_CanceledAtEntry499 ==
    [][ (canceled /\ pc = "entry" /\ bodyOk /\ username # "") =>
            /\ ret' = 499
            /\ pc' = "done"
            /\ sink' = "none"
            /\ attempts' = <<>> ]_vars

\* C18: once a username has been read the handler answers 200 whatever the
\* upstream calls do afterwards: a failed call, the catch block and the end
\* of the task are only ever seen with status 200, and the failure is
\* reported by the error event.  500 is returned exactly when the request
\* body cannot be read, before any sink exists.
C18_Status200AfterUsername ==
    /\ (Entered /\ bodyOk /\ username # "") => ret \in {0, 200}
    /\ (upFailedAt # "" \/ inCatch \/ calls # <<>> \/ events # <<>>) => ret = 200
    /\ (pc = "done" /\ bodyOk /\ username # "") => ret = 200
    /\ (pc = "done" /\ upFailedAt # "" /\ ~Aborted) => LastEvent.type = "error"
    /\ ret = 500 <=> (Entered /\ ~bodyOk)
    /\ ret = 500 =>
          sink = "none" /\ calls = <<>> /\ attempts = <<>> /\ upFailedAt = ""

C18_Witness ==
    /\ pc = "done"
    /\ ret = 200
    /\ upFailedAt = "users.getByUsername"
    /\ error = Err(TRUE, 404, TRUE, <<"Not", "Found">>)
    /\ LastEvent = Event("error", <<"User not found on GitHub">>)

\* An upstream call of this operation has been issued.
Called(op) == \E i \in 1..Len(calls) : calls[i].op = op

\* A call about one listed repository has been issued.
CalledPerRepo == \E i \in 1..Len(calls) : calls[i].repo > 0

\* A status event with this text has been written.
StatusWritten(text) ==
    \E i \in 1..Len(events) : events[i] = Event("status", <<text>>)

\* C19: no upstream call of a phase has been issued unless that phase's
\* status event has been written: profile lookup, listing, per-repository
\* analysis, generation.
C19_StatusBeforePhase ==
    /\ Called("users.getByUsername") =>
          StatusWritten("Fetching GitHub profile...")
    /\ Called("repos.listForUser") =>
          StatusWritten(IF version = 1 THEN "Fetching repositories..."
                                       ELSE "Fetching GitHub repositories...")
    /\ CalledPerRepo => StatusWritten("Analyzing repositories...")
    /\ Called("streamText") =>
          StatusWritten(IF mode = "feedback" THEN "Generating feedback..."
                        ELSE IF version = 1 THEN "Preparing epic roast..."
                        ELSE "Preparing roast...")

C19_Witness ==
    /\ version = 1
    /\ Called("users.getByUsername")
    /\ Called("repos.listForUser")
    /\ CalledPerRepo
    /\ Called("streamText")
    /\ CountType("status") = 4

\* Positions of the task inside the per-repository loop.
LoopLabels == {"loop", "list_commits", "get_commit", "get_pkg", "get_readme",
               "code_file", "push_summary"}

\* The paths of the calls issued for repository r ("" for the commit calls).
PathsFetched(r) ==
    { calls[i].path : i \in { j \in 1..Len(calls) : calls[j].repo = r } }

CodePaths == { codeFiles[k] : k \in 1..Len(codeFiles) }

\* The summary of a repository none of whose sub-fetches succeeded.
EmptySummary(r) ==
    [name |-> r, recentCommits |-> <<"No commits">>, packageJson |-> FALSE,
     readmeSnippet |-> FALSE, codeAnalysis |-> ""]

\* C20: failures of per-repository sub-fetches are silent and independent.
\* The catch block is entered only for a failed top-level call or a
\* disconnect, and an error event is attempted only then or for an empty
\* listing; the summaries are one per repository in listing order, and the
\* one pushed last (so each, when it is pushed) comes after the commit
\* listing, package.json and README fetches of its repository, and after
\* every candidate path when no code file was found;
\* once the loop is left every listed repository has its summary, and a
\* session that stays connected then writes response_start.
C20_SubFetchSilent ==
    /\ inCatch => (upFailedAt # "" \/ canceled)
    /\ \A i \in 1..Len(attempts) :
          attempts[i].event.type = "error" =>
              (upFailedAt # "" \/ canceled \/ nRepos = 0)
    /\ Len(summaries) <= ri
    /\ ri <= Len(summaries) + 1
    /\ \A r \in 1..Len(summaries) : summaries[r].name = r
    /\ Len(summaries) > 0 =>
          LET last == Len(summaries)
              fetched == PathsFetched(last)
          IN  /\ {"", "package.json", "README.md"} \subseteq fetched
              /\ (version = 1 /\ summaries[last].codeAnalysis = "") =>
                    CodePaths \subseteq fetched
    /\ (ri > 0 /\ pc \notin LoopLabels) =>
          /\ ri = nRepos
          /\ Len(summaries) = nRepos
    /\ (FinishedConnected /\ nRepos > 0 /\ upFailedAt \in {"", "streamText"}) =>
          /\ Len(summaries) = nRepos
          /\ CountType("response_start") = 1

\* Every sub-fetch of the first repository failed; the second repository was
\* analysed all the same and response_start was written, without any error.
C20_Witness ==
    /\ Len(summaries) = 2
    /\ summaries[1] = EmptySummary(1)
    /\ summaries[2].packageJson
    /\ CountType("response_start") = 1
    /\ Len(attempts) = Len(events)
    /\ CountType("error") = 0

\* C21: no retries: within one session no upstream call (operation and
\* arguments) is issued twice, whether it succeeded or failed.
C21_NoRetries ==
    Cardinality({ calls[i] : i \in 1..Len(calls) }) = Len(calls)

\* A finished session in which every sub-fetch of the second repository
\* failed and then the token stream failed.
C21_Witness ==
    /\ version = 1
    /\ Len(summaries) = 2
    /\ summaries[2] = EmptySummary(2)
    /\ Called("streamText")
    /\ upFailedAt = "streamText"
    /\ pc = "done"

\* C26: the classification has a fixed precedence: status 403 or a message
\* containing "rate limit" gives the rate-limit text, even with status 404;
\* otherwise status 404 gives the not-found text; otherwise a non-empty
\* message is passed through, and "Something went wrong" is used without one.
C26_ClassificationPrecedence ==
    (inCatch /\ errClass # "threw") =>
        LET rate == \/ error.hasStatus /\ error.status = 403
                    \/ error.hasMessage
                         /\ Includes(error.message, <<"rate", "limit">>)
            gone == error.hasStatus /\ error.status = 404
            text == error.hasMessage /\ error.message # <<>>
        IN  /\ rate =>
                  /\ errClass = "rate_limited"
                  /\ errorMsg =
                       <<"GitHub rate limit exceeded. Add GITHUB_TOKEN to .env">>
            /\ (~rate /\ gone) =>
                  /\ errClass = "not_found"
                  /\ errorMsg = <<"User not found on GitHub">>
            /\ (~rate /\ ~gone) => errClass = "unknown"
            /\ (~rate /\ ~gone /\ text) => errorMsg = error.message
            /\ (~rate /\ ~gone /\ ~text) => errorMsg = <<"Something went wrong">>

\* A 404 whose message speaks of the rate limit was classified rate-limited.
C26_Witness ==
    /\ inCatch
    /\ error = Err(TRUE, 404, TRUE, <<"rate", "limit", "hit">>)
    /\ errClass = "rate_limited"
    /\ errorMsg = <<"GitHub rate limit exceeded. Add GITHUB_TOKEN to .env">>

\* C29: every session terminates: when each upstream call returns or fails,
\* the token stream is finite and the client keeps reading, a session that
\* has started (its sink is open) eventually closes its sink, on the success
\* path, the zero-repositories path and the error path alike.
C29_SessionTerminates == (sink = "open") ~> (sink = "closed" /\ pc = "done")

\* The error path ran to its end: a failed listing, the error event, the close.
C29_Witness ==
    /\ sink = "closed"
    /\ pc = "done"
    /\ ~canceled
    /\ upFailedAt = "repos.listForUser"
    /\ Len(closeCalls) = 1
    /\ errClass = "unknown"

\* The event dispatched by the step, when the step dispatched one.
Dispatched == received'[Len(received')]
DispatchStep == Len(received') = Len(received) + 1

\* C24: when an error event is received the text shown becomes exactly the
\* error's content, whatever chunks had been accumulated, the status is
\* cleared and loading becomes false.
C24_ErrorReplacesResult ==
    [][ (DispatchStep /\ Dispatched.type = "error") =>
            /\ page'.result = Dispatched.content
            /\ page'.status = ""
            /\ ~page'.loading ]_vars

\* An error arrived after a chunk had been shown, and only the error's
\* content is displayed.
C24_Witness ==
    /\ Len(received) >= 2
    /\ received[Len(received)].type = "error"
    /\ \E i \in 1..Len(received) : received[i].type = "response_chunk"
    /\ page.result = <<"boom">>
    /\ page.status = ""
    /\ ~page.loading

\* The request of the current session, 0 before the first submit.
Current == Len(requests)

\* The concatenation of the contents of the chunks among the events.
ChunkText(evs) ==
    LET chunks == SelectSeq(evs, IsChunk)
    IN  [i \in 1..Len(chunks) |-> chunks[i].content[1]]

\* C25: at every point of a session in which no error event has been
\* received (and whose own request has not failed), the text shown is the
\* concatenation, in arrival order, of the chunks received so far in that
\* session; it is empty at each new submit.
C25_ResultIsConcatenation ==
    ( /\ Current > 0
      /\ \A i \in 1..Len(received) : received[i].type # "error"
      /\ requests[Current].outcome \notin {"http_error", "connect_error"} )
    => page.result = ChunkText(received)

\* C27: the completion of an earlier request does not disturb a later one:
\* whenever loading is true and the request of the current session is in
\* flight, controllerRef holds that request's AbortController, so that Stop
\* aborts it.
C27_StopAbortsCurrent ==
    (page.loading /\ InFlight(Current)) => page.controllerRef = Current

\* C28: loading always ends: after a submit, once the response stream ends
\* for whatever reason, loading becomes false again.
C28_LoadingEnds == page.loading ~> ~page.loading

\* C30 as stated: handleSubmit is a no-op while a request is loading or when
\* the username is blank, so at most one request that was not aborted is in
\* flight at any time.
C30_OneRequestInFlight ==
    Cardinality({ r \in DOMAIN requests :
                    InFlight(r) /\ ~requests[r].aborted }) <= 1

\* C30, amended: handleSubmit changes nothing while loading is true or the
\* trimmed username is empty; a request (fetch and AbortController) is
\* created only by a step taken with loading false and a non-blank username,
\* and that step makes it the current one and empties the text shown.
C30_SubmitGuard ==
    [][ /\ (HandleSubmit /\ (page.loading \/ Trim(page.username) = "")) =>
              UNCHANGED << page, requests, received >>
        /\ Len(requests') # Len(requests) =>
              /\ ~page.loading
              /\ Trim(page.username) # ""
              /\ Len(requests') = Len(requests) + 1
              /\ page'.controllerRef = Len(requests')
              /\ page'.loading
              /\ page'.result = <<>>
              /\ ~page'.copied ]_vars

\* A request is loading with a non-blank username in the input, and a second
\* one can only have been started after the first had stopped loading.
C30_Witness ==
    /\ page.loading
    /\ Trim(page.username) # ""
    /\ Len(requests) = 2
    /\ InFlight(1)
    /\ InFlight(2)
    /\ page.controllerRef = 2

\* The bytes of a sequence of events, as sendEvent writes them.
RECURSIVE Encoded(_)
Encoded(evs) ==
    IF evs = <<>> THEN <<>> ELSE Utf8(Message(Head(evs))) \o Encoded(Tail(evs))

\* C23: encoding by sendEvent and decoding by the page's reader round-trip,
\* however the bytes are cut into reads: the events dispatched are at every
\* point the first of the events written, in order and unchanged, and the
\* bytes of the others are exactly what the buffer, the decoder and the wire
\* still hold (after the empty line that ends the event dispatched last), so
\* that nothing is dispatched twice, lost, or dispatched from part of a line.
C23_RoundTrip ==
    /\ Len(dispatched) <= Len(sent)
    /\ dispatched = SubSeq(sent, 1, Len(dispatched))
    /\ LET rest == Utf8(buffer) \o carry \o wire
           todo == Encoded(SubSeq(sent, Len(dispatched) + 1, Len(sent)))
       IN  \/ rest = todo
           \/ rest = << LF >> \o todo

\* A read ended inside the second message, in the middle of a two-byte
\* character, after completing an event whose content holds a line feed.
C23_Witness ==
    /\ Len(sent) = 2
    /\ dispatched = << WireEvent("response_chunk", TRUE, << LF, "d" >>) >>
    /\ sent[2] = WireEvent("status", TRUE, << Eacute >>)
    /\ buffer # <<>>
    /\ carry # <<>>

\* C22: concurrent sessions are independent: every event in a sink was
\* produced by the session that owns the sink, and a step of one session -
\* a write, its failure, its cancellation or its completion - leaves the
\* events and the state of every other session's sink as they were.
C22_SessionsIndependent ==
    /\ [](\A k \in DOMAIN sinks :
            \A i \in 1..Len(sinks[k].events) : sinks[k].events[i].by = k)
    /\ [][ \A k \in DOMAIN sinks : k # actor' => sinks'[k] = sinks[k] ]_vars

\* Two sessions ran interleaved: the first was canceled after some of its
\* events, the second went on afterwards and completed.
C22_Witness ==
    /\ Len(sinks) >= 2
    /\ sinks[1].state = "errored"
    /\ Len(sinks[1].events) >= 1
    /\ sessions[1].phase = "done"
    /\ sinks[2].state = "closed"
    /\ Len(sinks[2].events) >= 2
    /\ sinks[2].events[Len(sinks[2].events)].type = "response_end"
    /\ actor = 2

====
